---- MODULE Spec2Model ----
(***************************************************************************)
(* Model of the 8-puzzle variant solver: Board State (puzzle/state.py),    *)
(* automatic swap rule (puzzle/game.py), heuristic evaluators              *)
(* (algorithm/heuristics.py) and the A* search engine (algorithm/astar.py).*)
(*                                                                         *)
(* A board is a tuple of three rows of three cells; the source's 0-based   *)
(* coordinates (i, j) are kept and translated on access by Cell / SetCell. *)
(***************************************************************************)
EXTENDS Integers, Sequences, FiniteSets, TLC

(***************************************************************************)
(* Bounds of the model.                                                    *)
(***************************************************************************)
\* number of get_neighbors moves applied to the seed grids to build inputs
MaxScramble == 3
\* number of search() invocations made on one engine object
MaxRuns == 2
\* number of operations applied to one State object in the board walk
MaxWalk == 8
\* slides applied to a seed grid to obtain the initial boards of SpecFair
MaxFairScramble == 1

(***************************************************************************)
(* numpy array access: board[i, j] and board[i, j] = v, 0-based.           *)
(***************************************************************************)
Coords == 0..2

Cell(board, i, j) == board[i + 1][j + 1]

SetCell(board, i, j, v) == [board EXCEPT ![i + 1][j + 1] = v]

\* row-major rank of a cell, the order in which range(3) x range(3) scans
Rank(i, j) == 3 * i + j

abs(x) == IF x < 0 THEN -x ELSE x

\* float('inf'): larger than every estimate the evaluators can compute
inf == 1000000

min(a, b) == IF b < a THEN b ELSE a

max(a, b) == IF b > a THEN b ELSE a

(***************************************************************************)
(* puzzle/game.py                                                          *)
(***************************************************************************)
goal_states ==
    << << <<1, 2, 3>>, <<4, 5, 6>>, <<7, 8, 0>> >>,
       << <<8, 7, 6>>, <<5, 4, 3>>, <<2, 1, 0>> >>,
       << <<0, 1, 2>>, <<3, 4, 5>>, <<6, 7, 8>> >>,
       << <<0, 8, 7>>, <<6, 5, 4>>, <<3, 2, 1>> >> >>

\* faulty variant: diagonal cells count as adjacent
_are_adjacent_diagonal(i1, j1, i2, j2) ==
    abs(i1 - i2) <= 1 /\ abs(j1 - j2) <= 1

_are_adjacent(i1, j1, i2, j2) ==
    \/ (abs(i1 - i2) = 1 /\ j1 = j2)
    \/ (abs(j1 - j2) = 1 /\ i1 = i2)

\* the dict filled by the double loop: a later cell overwrites an earlier one
PositionsOf(board, values) ==
    [v \in {w \in values : \E i \in Coords, j \in Coords : Cell(board, i, j) = w} |->
        CHOOSE p \in Coords \X Coords :
            /\ Cell(board, p[1], p[2]) = v
            /\ \A q \in Coords \X Coords :
                   Cell(board, q[1], q[2]) = v => Rank(q[1], q[2]) <= Rank(p[1], p[2])]

\* faulty variant: two assignments in a row, so both cells end with q's tile
SwapCells_clobber(board, p, q) ==
    LET first == SetCell(board, p[1], p[2], Cell(board, q[1], q[2]))
    IN  SetCell(first, q[1], q[2], Cell(first, p[1], p[2]))

\* a[p], a[q] = a[q], a[p]
SwapCells(board, p, q) ==
    SetCell(SetCell(board, p[1], p[2], Cell(board, q[1], q[2])),
            q[1], q[2], Cell(board, p[1], p[2]))

SwapPairIfAdjacent(board, positions, a, b) ==
    IF /\ a \in DOMAIN positions
       /\ b \in DOMAIN positions
       /\ _are_adjacent(positions[a][1], positions[a][2],
                        positions[b][1], positions[b][2])
    THEN SwapCells(board, positions[a], positions[b])
    ELSE board

\* faulty variant: the (2,4) step starts again from the unswapped board,
\* so the (1,3) exchange is lost
apply_special_rules_restart(state) ==
    LET positions == PositionsOf(state.board, {1, 2, 3, 4})
        after24   == SwapPairIfAdjacent(state.board, positions, 2, 4)
    IN  [state EXCEPT !.board = after24]

\* mutates state.board in place; the model returns the mutated State
apply_special_rules(state) ==
    LET positions == PositionsOf(state.board, {1, 2, 3, 4})
        after13   == SwapPairIfAdjacent(state.board, positions, 1, 3)
        after24   == SwapPairIfAdjacent(after13, positions, 2, 4)
    IN  [state EXCEPT !.board = after24]

\* faulty variant: the inversion-parity test of the classic 8-puzzle
is_solvable_parity(state) ==
    LET flat == [r \in 0..8 |-> Cell(state.board, r \div 3, r % 3)]
        inversions == {p \in (0..8) \X (0..8) :
                          /\ p[1] < p[2]
                          /\ flat[p[1]] # 0 /\ flat[p[2]] # 0
                          /\ flat[p[1]] > flat[p[2]]}
    IN  Cardinality(inversions) % 2 = 0

is_solvable(state) == TRUE

(***************************************************************************)
(* puzzle/state.py                                                         *)
(***************************************************************************)
HasBlank(board) == \E i \in Coords, j \in Coords : Cell(board, i, j) = 0

\* np.where(board == 0) lists the cells in row-major order; [0] of each
_find_blank(board) ==
    CHOOSE p \in Coords \X Coords :
        /\ Cell(board, p[1], p[2]) = 0
        /\ \A q \in Coords \X Coords :
               Cell(board, q[1], q[2]) = 0 => Rank(p[1], p[2]) <= Rank(q[1], q[2])

\* State(board, blank_pos)
State(board, blank_pos) == [board |-> board, blank_pos |-> blank_pos]

\* State(board): blank_pos is found by _find_blank (callers guard with
\* HasBlank: without a cell holding 0 the lookup raises IndexError)
NewState(board) == State(board, _find_blank(board))

moves == << <<-1, 0>>, <<1, 0>>, <<0, -1>>, <<0, 1>> >>

\* faulty variant: the candidate keeps the blank_pos of the state it came from
SlideTo_stale_blank(state, new_i, new_j) ==
    LET i == state.blank_pos[1]
        j == state.blank_pos[2]
        moved == SetCell(state.board, i, j, Cell(state.board, new_i, new_j))
    IN  State(SetCell(moved, new_i, new_j, 0), <<i, j>>)

\* the candidate built for one direction of the loop body
SlideTo(state, new_i, new_j) ==
    LET i == state.blank_pos[1]
        j == state.blank_pos[2]
        moved == SetCell(state.board, i, j, Cell(state.board, new_i, new_j))
    IN  State(SetCell(moved, new_i, new_j, 0), <<new_i, new_j>>)

\* faulty variant: strict lower bound, row 0 and column 0 are refused
InBounds_strict(state, m) ==
    /\ 0 < state.blank_pos[1] + m[1] /\ state.blank_pos[1] + m[1] < 3
    /\ 0 < state.blank_pos[2] + m[2] /\ state.blank_pos[2] + m[2] < 3

InBounds(state, m) ==
    /\ 0 <= state.blank_pos[1] + m[1] /\ state.blank_pos[1] + m[1] < 3
    /\ 0 <= state.blank_pos[2] + m[2] /\ state.blank_pos[2] + m[2] < 3

get_neighbors(state) ==
    LET valid == SelectSeq(moves, LAMBDA m : InBounds(state, m))
    IN  [k \in 1..Len(valid) |->
            apply_special_rules(SlideTo(state,
                                        state.blank_pos[1] + valid[k][1],
                                        state.blank_pos[2] + valid[k][2]))]

\* faulty variant: new_board is self.board itself, not a copy, so the slide
\* and the swaps of one pass are written into the receiver's grid
SelfAfterSlide_shared(state, new_i, new_j) ==
    [state EXCEPT !.board =
        apply_special_rules(
            State(SetCell(SetCell(state.board, state.blank_pos[1],
                                  state.blank_pos[2],
                                  Cell(state.board, new_i, new_j)),
                          new_i, new_j, 0),
                  <<new_i, new_j>>)).board]

\* the receiver after one pass of the loop body: the two writes go to
\* new_board, a copy of self.board, and apply_special_rules writes to the
\* array State() built from new_board; self.board and self.blank_pos are
\* only read
SelfAfterSlide(state, new_i, new_j) == state

RECURSIVE SelfAfterMoves(_, _, _, _)
\* the receiver after the first k directions of the loop; i and j are read
\* from self.blank_pos once, before the loop
SelfAfterMoves(state, i, j, k) ==
    IF k = 0 THEN state
    ELSE LET before == SelfAfterMoves(state, i, j, k - 1)
             new_i  == i + moves[k][1]
             new_j  == j + moves[k][2]
         IN  IF InBounds(state, moves[k])
             THEN SelfAfterSlide(before, new_i, new_j)
             ELSE before

\* the State object get_neighbors was called on, as it is when the call returns
get_neighbors_self(state) ==
    SelfAfterMoves(state, state.blank_pos[1], state.blank_pos[2], Len(moves))

is_goal(state, goals) == \E k \in 1..Len(goals) : state.board = goals[k]

(***************************************************************************)
(* algorithm/heuristics.py                                                 *)
(***************************************************************************)
Ranks == 0..8

RECURSIVE SumTo(_, _)
\* f[0] + ... + f[r]
SumTo(f, r) == IF r < 0 THEN 0 ELSE f[r] + SumTo(f, r - 1)

RECURSIVE MinOf_last(_, _, _)
\* faulty variant: the running value is overwritten, not minimised, so the
\* value for the last goal is returned
MinOf_last(values, k, acc) ==
    IF k > Len(values) THEN acc ELSE MinOf_last(values, k + 1, values[k])

RECURSIVE MinOf(_, _, _)
\* the running minimum of the loop over the goals, started at float('inf')
MinOf(values, k, acc) ==
    IF k > Len(values) THEN acc ELSE MinOf(values, k + 1, min(acc, values[k]))

\* faulty variant: only the row distance is added
ManhattanTo_rows(state, goal) ==
    LET goal_positions == PositionsOf(goal, 1..8)
        term == [r \in Ranks |->
                    LET i == r \div 3
                        j == r % 3
                        v == Cell(state.board, i, j)
                    IN  IF v # 0 /\ v \in DOMAIN goal_positions
                        THEN abs(i - goal_positions[v][1])
                        ELSE 0]
    IN  SumTo(term, 8)

\* the inner sum of manhattan_distance for one goal
ManhattanTo(state, goal) ==
    LET goal_positions == PositionsOf(goal, 1..8)
        term == [r \in Ranks |->
                    LET i == r \div 3
                        j == r % 3
                        v == Cell(state.board, i, j)
                    IN  IF v # 0 /\ v \in DOMAIN goal_positions
                        THEN abs(i - goal_positions[v][1]) + abs(j - goal_positions[v][2])
                        ELSE 0]
    IN  SumTo(term, 8)

manhattan_distance(state, goals) ==
    MinOf([k \in 1..Len(goals) |-> ManhattanTo(state, goals[k])], 1, inf)

\* the generator sum of misplaced_tiles for one goal
MisplacedTo(state, goal) ==
    LET term == [r \in Ranks |->
                    LET i == r \div 3
                        j == r % 3
                    IN  IF /\ Cell(state.board, i, j) # 0
                           /\ Cell(state.board, i, j) # Cell(goal, i, j)
                        THEN 1 ELSE 0]
    IN  SumTo(term, 8)

misplaced_tiles(state, goals) ==
    MinOf([k \in 1..Len(goals) |-> MisplacedTo(state, goals[k])], 1, inf)

\* AStar.heuristic_func, one of the two named strategies
Heuristics == {"manhattan", "misplaced"}

heuristic_func(name, state, goals) ==
    IF name = "manhattan" THEN manhattan_distance(state, goals)
    ELSE misplaced_tiles(state, goals)

(***************************************************************************)
(* Inputs: the raw grids handed to State(...) by a caller (main.py,        *)
(* utils/experiment.py).                                                   *)
(***************************************************************************)
\* main.py default initial board
DefaultGrid == << <<1, 2, 3>>, <<4, 0, 5>>, <<7, 8, 6>> >>

\* a permutation of 0..8 nine moves away from its nearest goal
FarGrid == << <<3, 4, 1>>, <<2, 8, 0>>, <<7, 6, 5>> >>

\* a permutation of 0..8 whose search pops an already expanded board
StaleGrid == << <<3, 7, 2>>, <<1, 8, 4>>, <<6, 5, 0>> >>

\* grids that are not permutations of 0..8: several blanks, no blank,
\* a repeated tile
MultiBlankGrid == << <<0, 0, 0>>, <<0, 0, 0>>, <<0, 0, 5>> >>

NoBlankGrid == << <<1, 2, 3>>, <<4, 5, 6>>, <<7, 8, 8>> >>

\* one blank, but the other cells all hold the same tile
DuplicateGrid == << <<0, 5, 5>>, <<5, 5, 5>>, <<5, 5, 5>> >>

SeedGrids == {goal_states[k] : k \in 1..Len(goal_states)} \cup {DefaultGrid}

\* permutations taken as they are, far from every goal
ProbeGrids == {FarGrid, StaleGrid}

NeighborGrids(grid) ==
    {get_neighbors(NewState(grid))[k].board : k \in 1..Len(get_neighbors(NewState(grid)))}

RECURSIVE Scramble(_, _)
\* the grids within n moves of the given ones
Scramble(grids, n) ==
    IF n = 0 THEN grids
    ELSE Scramble(grids \cup UNION {NeighborGrids(g) : g \in grids}, n - 1)

InputGrids ==
    Scramble(SeedGrids, MaxScramble) \cup ProbeGrids
        \cup {MultiBlankGrid, NoBlankGrid, DuplicateGrid}

\* a grid that is a permutation of 0..8
IsPermutation(board) ==
    \A v \in 0..8 :
        Cardinality({p \in Coords \X Coords : Cell(board, p[1], p[2]) = v}) = 1

(***************************************************************************)
(* algorithm/astar.py: the engine object and one search() call at a time.  *)
(***************************************************************************)
VARIABLES
    pc,                 \* position of the caller / of search()
    heuristic,          \* self.heuristic_func
    nodes_expanded,     \* self.nodes_expanded
    max_frontier_size,  \* self.max_frontier_size
    search_tree,        \* self.search_tree
    initial_state,      \* the argument of search()
    open_set,           \* heap of (f, counter, state)
    closed_set,         \* set of State, compared by board
    g_values,           \* dict State -> int, keyed by board
    parent,             \* dict State -> State or None, keyed by board
    counter,            \* tie-breaker of the heap entries
    current,            \* the popped state
    current_g,          \* g_values[current]
    todo,               \* neighbors the for loop has not reached yet
    result,             \* the value search() returned
    log,                \* what the caller read after each call
    s,                  \* a State object driven directly (board walk)
    prev,               \* the value of s before the last operation on it
    last_op,            \* the last operation applied to s
    steps,              \* number of operations applied to s
    estimate            \* what the last heuristic call on s returned

engine == <<heuristic, nodes_expanded, max_frontier_size, search_tree>>

run == <<initial_state, open_set, closed_set, g_values, parent, counter,
         current, current_g, todo, result>>

walk == <<s, prev, last_op, steps, estimate>>

vars == <<pc, engine, run, log, walk>>

\* None and "no State yet"
NoState == State(<<>>, <<>>)

NoResult == [is_none |-> TRUE, path |-> <<>>]

\* State.__eq__ / __hash__: membership of a set or dict by board
InSet(state, set) == \E x \in set : x.board = state.board

HasKey(dict, state) == state.board \in DOMAIN dict

\* dict[state] = value
Store(dict, state, value) ==
    [b \in DOMAIN dict \cup {state.board} |->
        IF b = state.board THEN value ELSE dict[b]]

\* faulty variant: among equal f the entry pushed last comes first
EntryLess_lifo(a, b) == a[1] < b[1] \/ (a[1] = b[1] /\ a[2] > b[2])

\* heap order of the entries (f, counter, state): f, then counter
EntryLess(a, b) == a[1] < b[1] \/ (a[1] = b[1] /\ a[2] < b[2])

\* heapq.heappop: the smallest entry
HeapMin(heap) == CHOOSE e \in heap : \A o \in heap : o = e \/ EntryLess(e, o)

RECURSIVE PathBack(_, _)
\* the list built by the while loop of _reconstruct_path, goal first
PathBack(parents, state) ==
    IF parents[state.board] = NoState THEN <<state>>
    ELSE <<state>> \o PathBack(parents, parents[state.board])

\* faulty variant: the reversed list loses its first element
Reverse_off_by_one(seq) == [k \in 1..(Len(seq) - 1) |-> seq[Len(seq) - k]]

\* path.reverse()
Reverse(seq) == [k \in 1..Len(seq) |-> seq[Len(seq) + 1 - k]]

\* faulty variant: the list is returned goal first, without reversal
_reconstruct_path_unreversed(parents, state) == PathBack(parents, state)

_reconstruct_path(parents, state) == Reverse(PathBack(parents, state))

EmptyRun ==
    /\ initial_state = NoState
    /\ open_set = {}
    /\ closed_set = {}
    /\ g_values = <<>>
    /\ parent = <<>>
    /\ counter = 0
    /\ current = NoState
    /\ current_g = 0
    /\ todo = <<>>
    /\ result = NoResult

\* no heuristic call made yet
NoEstimate == [heuristic |-> "none", goals |-> <<>>, raised |-> FALSE, value |-> 0]

NoWalk ==
    /\ s = NoState
    /\ prev = NoState
    /\ last_op = "none"
    /\ steps = 0
    /\ estimate = NoEstimate

\* AStar.__init__
Init ==
    /\ pc = "new"
    /\ heuristic \in Heuristics
    /\ nodes_expanded = 0
    /\ max_frontier_size = 0
    /\ search_tree = <<>>
    /\ EmptyRun
    /\ log = <<>>
    /\ NoWalk

\* initial_state = State(initial_board)
Construct(grid) ==
    /\ pc = "new"
    /\ IF HasBlank(grid)
       THEN /\ initial_state' = NewState(grid)
            /\ pc' = "ready"
       ELSE /\ initial_state' = initial_state
            /\ pc' = "raised"
    /\ UNCHANGED <<engine, open_set, closed_set, g_values, parent, counter,
                   current, current_g, todo, result, log, walk>>

\* search(): solvability check, bookkeeping, initial push
SearchStart ==
    /\ pc = "ready"
    /\ IF ~is_solvable(initial_state)
       THEN /\ result' = NoResult
            /\ pc' = "done"
            /\ UNCHANGED <<open_set, closed_set, g_values, parent, counter>>
       ELSE /\ open_set' = {<<heuristic_func(heuristic, initial_state, goal_states),
                               0, initial_state>>}
            /\ closed_set' = {}
            /\ g_values' = Store(<<>>, initial_state, 0)
            /\ parent' = Store(<<>>, initial_state, NoState)
            /\ counter' = 0
            /\ result' = result
            /\ pc' = "loop"
    /\ UNCHANGED <<engine, initial_state, current, current_g, todo, log, walk>>

\* faulty variant: the expansion counter is advanced at every pop, before
\* the goal check
Pop_counting ==
    /\ pc = "loop"
    /\ open_set # {}
    /\ max_frontier_size' = max(max_frontier_size, Cardinality(open_set))
    /\ nodes_expanded' = nodes_expanded + 1
    /\ \E e \in open_set :
          /\ \A o \in open_set :
                 o = e \/ e[1] < o[1] \/ (e[1] = o[1] /\ e[2] < o[2])
          /\ current' = e[3]
          /\ open_set' = open_set \ {e}
    /\ pc' = "popped"
    /\ UNCHANGED <<heuristic, search_tree, initial_state,
                   closed_set, g_values, parent, counter, current_g, todo,
                   result, log, walk>>

\* while open_set: track the frontier size and pop the lowest f
Pop ==
    /\ pc = "loop"
    /\ open_set # {}
    /\ max_frontier_size' = max(max_frontier_size, Cardinality(open_set))
    /\ current' = HeapMin(open_set)[3]
    /\ open_set' = open_set \ {HeapMin(open_set)}
    /\ pc' = "popped"
    /\ UNCHANGED <<heuristic, nodes_expanded, search_tree, initial_state,
                   closed_set, g_values, parent, counter, current_g, todo,
                   result, log, walk>>

\* the loop ends with an empty frontier: return None
NoSolution ==
    /\ pc = "loop"
    /\ open_set = {}
    /\ result' = NoResult
    /\ pc' = "done"
    /\ UNCHANGED <<engine, initial_state, open_set, closed_set, g_values,
                   parent, counter, current, current_g, todo, log, walk>>

\* if current.is_goal(...): return self._reconstruct_path(parent, current)
GoalReached ==
    /\ pc = "popped"
    /\ is_goal(current, goal_states)
    /\ result' = [is_none |-> FALSE, path |-> _reconstruct_path(parent, current)]
    /\ pc' = "done"
    /\ UNCHANGED <<engine, initial_state, open_set, closed_set, g_values,
                   parent, counter, current, current_g, todo, log, walk>>

\* if current in closed_set: continue
SkipExplored ==
    /\ pc = "popped"
    /\ ~is_goal(current, goal_states)
    /\ InSet(current, closed_set)
    /\ pc' = "loop"
    /\ UNCHANGED <<engine, run, log, walk>>

\* faulty variant: a popped board is expanded even when already explored
Expand_again ==
    /\ pc = "popped"
    /\ ~is_goal(current, goal_states)
    /\ closed_set' = closed_set \cup {get_neighbors_self(current)}
    /\ nodes_expanded' = nodes_expanded + 1
    /\ current_g' = g_values[current.board]
    /\ todo' = get_neighbors(current)
    /\ current' = get_neighbors_self(current)
    /\ pc' = IF todo' = <<>> THEN "loop" ELSE "for"
    /\ UNCHANGED <<heuristic, max_frontier_size, search_tree, initial_state,
                   open_set, g_values, parent, counter, result, log, walk>>

\* closed_set.add(current); nodes_expanded += 1; current_g; get_neighbors.
\* closed_set holds a reference to the object current, so it and current
\* show the grid that object has when get_neighbors returns
Expand ==
    /\ pc = "popped"
    /\ ~is_goal(current, goal_states)
    /\ ~InSet(current, closed_set)
    /\ closed_set' = closed_set \cup {get_neighbors_self(current)}
    /\ nodes_expanded' = nodes_expanded + 1
    /\ current_g' = g_values[current.board]
    /\ todo' = get_neighbors(current)
    /\ current' = get_neighbors_self(current)
    /\ pc' = IF todo' = <<>> THEN "loop" ELSE "for"
    /\ UNCHANGED <<heuristic, max_frontier_size, search_tree, initial_state,
                   open_set, g_values, parent, counter, result, log, walk>>

\* faulty variant: a neighbor reached again at the same cost is pushed again
SkipNeighbor_nonstrict(neighbor, new_g) ==
    \/ InSet(neighbor, closed_set)
    \/ (HasKey(g_values, neighbor) /\ new_g > g_values[neighbor.board])

\* the two continue statements of the neighbor loop: the neighbor is already
\* explored, or it has a recorded cost that new_g does not improve
SkipNeighbor(neighbor, new_g) ==
    \/ InSet(neighbor, closed_set)
    \/ (HasKey(g_values, neighbor) /\ new_g >= g_values[neighbor.board])

\* faulty variant: parent[neighbor] = current is written before the two
\* continue tests, so also for a neighbor that is skipped
Relax_early_parent ==
    /\ pc = "for"
    /\ todo # <<>>
    /\ parent' = Store(parent, Head(todo), current)
    /\ LET neighbor == Head(todo)
           new_g    == current_g + 1
       IN  IF SkipNeighbor(neighbor, new_g)
           THEN UNCHANGED <<g_values, search_tree, counter, open_set>>
           ELSE /\ g_values' = Store(g_values, neighbor, new_g)
                /\ search_tree' = Append(search_tree, <<current, neighbor>>)
                /\ counter' = counter + 1
                /\ open_set' = open_set \cup
                       {<<new_g + heuristic_func(heuristic, neighbor, goal_states),
                          counter + 1, neighbor>>}
    /\ todo' = Tail(todo)
    /\ pc' = IF todo' = <<>> THEN "loop" ELSE "for"
    /\ UNCHANGED <<heuristic, nodes_expanded, max_frontier_size, initial_state,
                   closed_set, current, current_g, result, log, walk>>

\* one pass of the body of: for neighbor in current.get_neighbors(...)
Relax ==
    /\ pc = "for"
    /\ todo # <<>>
    /\ LET neighbor == Head(todo)
           new_g    == current_g + 1
       IN  IF SkipNeighbor(neighbor, new_g)
           THEN UNCHANGED <<parent, g_values, search_tree, counter, open_set>>
           ELSE /\ parent' = Store(parent, neighbor, current)
                /\ g_values' = Store(g_values, neighbor, new_g)
                /\ search_tree' = Append(search_tree, <<current, neighbor>>)
                /\ counter' = counter + 1
                /\ open_set' = open_set \cup
                       {<<new_g + heuristic_func(heuristic, neighbor, goal_states),
                          counter + 1, neighbor>>}
    /\ todo' = Tail(todo)
    /\ pc' = IF todo' = <<>> THEN "loop" ELSE "for"
    /\ UNCHANGED <<heuristic, nodes_expanded, max_frontier_size, initial_state,
                   closed_set, current, current_g, result, log, walk>>

\* the caller reads the returned path and the two counters
ReadCounters ==
    /\ pc = "done"
    /\ log' = Append(log, [initial_state     |-> initial_state,
                           result            |-> result,
                           nodes_expanded    |-> nodes_expanded,
                           max_frontier_size |-> max_frontier_size])
    /\ pc' = "returned"
    /\ UNCHANGED <<engine, run, walk>>

\* the caller invokes search() again on the same engine object, with the
\* same State object or with a State built from the first goal grid
SearchAgain(state) ==
    /\ pc = "returned"
    /\ Len(log) < MaxRuns
    /\ initial_state' = state
    /\ pc' = "ready"
    /\ UNCHANGED <<engine, open_set, closed_set, g_values, parent, counter,
                   current, current_g, todo, result, log, walk>>

Next ==
    \/ \E grid \in InputGrids : Construct(grid)
    \/ SearchStart
    \/ Pop
    \/ NoSolution
    \/ GoalReached
    \/ SkipExplored
    \/ Expand
    \/ Relax
    \/ ReadCounters
    \/ \E state \in {initial_state, NewState(goal_states[1])} : SearchAgain(state)

Spec == Init /\ [][Next]_vars

(***************************************************************************)
(* One call of search() run to its end: the caller builds the State and    *)
(* calls search(); the interpreter keeps executing the call, so a step of  *)
(* the call that can be taken is eventually taken.                         *)
(***************************************************************************)
FairGrids ==
    Scramble(SeedGrids, MaxFairScramble) \cup ProbeGrids
        \cup {MultiBlankGrid, DuplicateGrid}

SearchStep ==
    \/ SearchStart
    \/ Pop
    \/ NoSolution
    \/ GoalReached
    \/ SkipExplored
    \/ Expand
    \/ Relax

NextFair ==
    \/ \E grid \in FairGrids : Construct(grid)
    \/ SearchStep

SpecFair == Init /\ [][NextFair]_vars /\ WF_vars(SearchStep)

(***************************************************************************)
(* Board walk: a caller drives one State object directly through the       *)
(* public operations of puzzle/state.py and puzzle/game.py.                *)
(***************************************************************************)
InitBoard ==
    /\ pc = "walk"
    /\ heuristic = "manhattan"
    /\ nodes_expanded = 0
    /\ max_frontier_size = 0
    /\ search_tree = <<>>
    /\ EmptyRun
    /\ log = <<>>
    /\ s \in {NewState(grid) : grid \in SeedGrids \cup ProbeGrids}
    /\ prev = NoState
    /\ last_op = "State"
    /\ steps = 0
    /\ estimate = NoEstimate

\* s = s.get_neighbors(game)[k]
TakeNeighbor(k) ==
    /\ pc = "walk"
    /\ steps < MaxWalk
    /\ k \in 1..Len(get_neighbors(s))
    /\ s' = get_neighbors(s)[k]
    /\ prev' = s
    /\ last_op' = "get_neighbors"
    /\ steps' = steps + 1
    /\ UNCHANGED <<pc, engine, run, log, estimate>>

\* game.apply_special_rules(s)
ApplyRules ==
    /\ pc = "walk"
    /\ steps < MaxWalk
    /\ s' = apply_special_rules(s)
    /\ prev' = s
    /\ last_op' = "apply_special_rules"
    /\ steps' = steps + 1
    /\ UNCHANGED <<pc, engine, run, log, estimate>>

\* the goal collections a caller passes to an evaluator: the game's four
\* goals, or an empty list
GoalSets == {goal_states, <<>>}

\* manhattan_distance(s, goals) / misplaced_tiles(s, goals) called directly:
\* the loop over the goals runs, no exception is raised, the running
\* minimum is returned
Evaluate(name, goals) ==
    /\ pc = "evaluate"
    /\ estimate' = [heuristic |-> name,
                    goals     |-> goals,
                    raised    |-> FALSE,
                    value     |-> heuristic_func(name, s, goals)]
    /\ last_op' = "heuristic"
    /\ UNCHANGED <<pc, engine, run, log, s, prev, steps>>

NextBoard ==
    \/ \E k \in 1..4 : TakeNeighbor(k)
    \/ ApplyRules

SpecBoard == InitBoard /\ [][NextBoard]_vars

(***************************************************************************)
(* Heuristic calls: a caller evaluates a State built from an input grid.   *)
(***************************************************************************)
InitHeuristic ==
    /\ pc = "evaluate"
    /\ heuristic = "manhattan"
    /\ nodes_expanded = 0
    /\ max_frontier_size = 0
    /\ search_tree = <<>>
    /\ EmptyRun
    /\ log = <<>>
    /\ s \in {NewState(grid) : grid \in {g \in InputGrids : HasBlank(g)}}
    /\ prev = NoState
    /\ last_op = "State"
    /\ steps = 0
    /\ estimate = NoEstimate

NextHeuristic == \E name \in Heuristics, goals \in GoalSets : Evaluate(name, goals)

SpecHeuristic == InitHeuristic /\ [][NextHeuristic]_vars

(***************************************************************************)
(* Reference notions used to state the properties.                         *)
(***************************************************************************)
Cells == Coords \X Coords

GoalGrids == {goal_states[k] : k \in 1..Len(goal_states)}

\* the cell of a permutation board that holds tile v
CellOf(board, v) == CHOOSE p \in Cells : Cell(board, p[1], p[2]) = v

\* orthogonal adjacency: Manhattan distance exactly 1
Orthogonal(p, q) == abs(p[1] - q[1]) + abs(p[2] - q[2]) = 1

\* the board with the contents of cells p and q exchanged
Exchange(board, p, q) ==
    [i \in 1..3 |-> [j \in 1..3 |->
        IF <<i - 1, j - 1>> = p THEN Cell(board, q[1], q[2])
        ELSE IF <<i - 1, j - 1>> = q THEN Cell(board, p[1], p[2])
        ELSE board[i][j]]]

\* the boards one legal slide of the blank away (no automatic swap)
Slides(board) ==
    {Exchange(board, CellOf(board, 0), q) :
        q \in {c \in Cells : Orthogonal(c, CellOf(board, 0))}}

\* the rule that re-locates tiles 2 and 4 after the (1,3) step
SequentialRule(board) ==
    LET first == IF Orthogonal(CellOf(board, 1), CellOf(board, 3))
                 THEN Exchange(board, CellOf(board, 1), CellOf(board, 3))
                 ELSE board
    IN  IF Orthogonal(CellOf(first, 2), CellOf(first, 4))
        THEN Exchange(first, CellOf(first, 2), CellOf(first, 4))
        ELSE first

Corners == {<<0, 0>>, <<0, 2>>, <<2, 0>>, <<2, 2>>}

NeighborStates(state) ==
    LET n == get_neighbors(state) IN {n[k] : k \in 1..Len(n)}

RECURSIVE CostFrom(_, _, _)
\* breadth-first search over get_neighbors: the number of moves to the
\* nearest goal, or -1 when no goal can be reached
CostFrom(frontier, seen, d) ==
    IF \E x \in frontier : x.board \in GoalGrids THEN d
    ELSE IF frontier = {} THEN -1
    ELSE LET new == (UNION {NeighborStates(x) : x \in frontier}) \ seen
         IN  CostFrom(new, seen \cup new, d + 1)

TrueCost(state) == CostFrom({state}, {state}, 0)

(***************************************************************************)
(* Properties of the transition rule and the swap rule (SpecBoard).        *)
(***************************************************************************)
\* C8: get_neighbors of a valid board returns 2 boards for a corner blank,
\* 3 for a non-corner edge blank and 4 for a center blank; every returned
\* board is the swap rule applied to a one-cell in-bounds slide of the
\* blank, and the returned boards are pairwise distinct.
NeighborsShape ==
    IsPermutation(s.board) =>
        LET n     == get_neighbors(s)
            blank == CellOf(s.board, 0)
        IN  /\ Len(n) = IF blank \in Corners THEN 2
                        ELSE IF blank = <<1, 1>> THEN 4 ELSE 3
            /\ \A k \in 1..Len(n) :
                   \E b \in Slides(s.board) :
                       n[k].board = apply_special_rules(NewState(b)).board
            /\ \A k, l \in 1..Len(n) : k # l => n[k].board # n[l].board

NeighborsShapeWitness ==
    /\ last_op = "get_neighbors"
    /\ IsPermutation(s.board)
    /\ CellOf(s.board, 0) = <<1, 1>>
    /\ Len(get_neighbors(s)) = 4
    /\ \E k \in 1..Len(get_neighbors(prev)) : get_neighbors(prev)[k] = s

\* C9: apply_special_rules on a valid board exchanges the cells holding 1
\* and 3 iff they are orthogonally adjacent, exchanges the cells holding 2
\* and 4 iff they are orthogonally adjacent, and leaves the blank and the
\* tiles 5..8 where they are.
SwapRuleExact ==
    IsPermutation(s.board) =>
        LET r  == apply_special_rules(s).board
            p1 == CellOf(s.board, 1)
            p2 == CellOf(s.board, 2)
            p3 == CellOf(s.board, 3)
            p4 == CellOf(s.board, 4)
        IN  /\ IF Orthogonal(p1, p3)
               THEN Cell(r, p1[1], p1[2]) = 3 /\ Cell(r, p3[1], p3[2]) = 1
               ELSE Cell(r, p1[1], p1[2]) = 1 /\ Cell(r, p3[1], p3[2]) = 3
            /\ IF Orthogonal(p2, p4)
               THEN Cell(r, p2[1], p2[2]) = 4 /\ Cell(r, p4[1], p4[2]) = 2
               ELSE Cell(r, p2[1], p2[2]) = 2 /\ Cell(r, p4[1], p4[2]) = 4
            /\ \A c \in Cells \ {p1, p2, p3, p4} :
                   Cell(r, c[1], c[2]) = Cell(s.board, c[1], c[2])

SwapRuleExactWitness ==
    /\ last_op = "apply_special_rules"
    /\ IsPermutation(prev.board)
    /\ Orthogonal(CellOf(prev.board, 1), CellOf(prev.board, 3))
    /\ ~Orthogonal(CellOf(prev.board, 2), CellOf(prev.board, 4))
    /\ s.board = Exchange(prev.board, CellOf(prev.board, 1), CellOf(prev.board, 3))

\* C10: on every valid board apply_special_rules, which locates the tiles
\* 1..4 once before any swap, gives the same board as the rule that
\* re-locates tiles 2 and 4 after the (1,3) step.
SwapSequencing ==
    IsPermutation(s.board) =>
        apply_special_rules(s).board = SequentialRule(s.board)

SwapSequencingWitness ==
    /\ last_op = "apply_special_rules"
    /\ IsPermutation(prev.board)
    /\ Orthogonal(CellOf(prev.board, 1), CellOf(prev.board, 3))
    /\ Orthogonal(CellOf(prev.board, 2), CellOf(prev.board, 4))
    /\ s.board = SequentialRule(prev.board)
    /\ s.board # prev.board

\* C11: every board produced from a valid board by get_neighbors moves
\* (slide plus automatic swaps) is again a permutation of 0..8, and its
\* stored blank_pos is the cell holding 0.
StateInvariant ==
    /\ IsPermutation(s.board)
    /\ Cell(s.board, s.blank_pos[1], s.blank_pos[2]) = 0

StateInvariantWitness ==
    /\ last_op = "get_neighbors"
    /\ steps >= 3
    /\ s.board \notin Slides(prev.board)
    /\ s.blank_pos # prev.blank_pos
    /\ IsPermutation(s.board)
    /\ s.blank_pos = CellOf(s.board, 0)

(***************************************************************************)
(* Properties of the heuristic evaluators (SpecBoard).                     *)
(***************************************************************************)
\* C2: on every valid board from which a goal can be reached, both
\* manhattan_distance and misplaced_tiles are at most the true number of
\* moves (slide plus automatic swaps) to the nearest goal.
Admissible ==
    (IsPermutation(s.board) /\ TrueCost(s) >= 0) =>
        /\ manhattan_distance(s, goal_states) <= TrueCost(s)
        /\ misplaced_tiles(s, goal_states) <= TrueCost(s)

\* C3: on every valid board n and every neighbor n' of it,
\* h(n) <= 1 + h(n') for both evaluators.
Consistent ==
    IsPermutation(s.board) =>
        \A n \in NeighborStates(s) :
            /\ manhattan_distance(s, goal_states) <= 1 + manhattan_distance(n, goal_states)
            /\ misplaced_tiles(s, goal_states) <= 1 + misplaced_tiles(n, goal_states)

\* C12: on every valid board, with the four fixed goals,
\* manhattan_distance is at least misplaced_tiles.
ManhattanDominates ==
    IsPermutation(s.board) =>
        manhattan_distance(s, goal_states) >= misplaced_tiles(s, goal_states)

ManhattanDominatesWitness ==
    /\ IsPermutation(s.board)
    /\ last_op # "State"
    /\ misplaced_tiles(s, goal_states) >= 3
    /\ manhattan_distance(s, goal_states) > misplaced_tiles(s, goal_states)

(***************************************************************************)
(* Properties of the search engine (Spec).                                 *)
(***************************************************************************)
\* a call of search() has returned a path
Returned == pc = "done" /\ ~result.is_none

\* C1: for a valid initial board the returned path is a shortest one: its
\* length minus one is the minimum number of moves to any goal.
PathOptimal ==
    (Returned /\ IsPermutation(initial_state.board)) =>
        Len(result.path) - 1 = TrueCost(initial_state)

PathLegal ==
    Returned =>
        /\ result.path[1].board = initial_state.board
        /\ result.path[Len(result.path)].board \in GoalGrids
        /\ \A k \in 1..(Len(result.path) - 1) :
               \E n \in NeighborStates(result.path[k]) :
                   n.board = result.path[k + 1].board

PathLegalWitness ==
    /\ Returned
    /\ Len(result.path) >= 4
    /\ result.path[1].board = initial_state.board
    /\ result.path[1].board # result.path[Len(result.path)].board

\* C6: when the initial board is one of the goals, the first search on a
\* fresh engine returns the one-element path and expands nothing.
GoalStart ==
    (pc = "done" /\ Len(log) = 0 /\ initial_state.board \in GoalGrids) =>
        /\ ~result.is_none
        /\ result.path = <<initial_state>>
        /\ nodes_expanded = 0

GoalStartWitness ==
    /\ pc = "done"
    /\ Len(log) = 0
    /\ initial_state.board = goal_states[2]
    /\ result.path = <<initial_state>>

\* C7: two invocations with the same initial board and heuristic, the
\* second possibly on an engine that already completed a search, give the
\* same path, nodes_expanded and max_frontier_size.
Deterministic ==
    \A a, b \in DOMAIN log :
        (/\ IsPermutation(log[a].initial_state.board)
         /\ log[a].initial_state.board = log[b].initial_state.board) =>
            /\ log[a].result = log[b].result
            /\ log[a].nodes_expanded = log[b].nodes_expanded
            /\ log[a].max_frontier_size = log[b].max_frontier_size

\* C13: every pop removes the frontier entry with the smallest f and, among
\* the entries of equal f, the one pushed earliest; every push carries a
\* counter larger than that of every earlier push, so no two frontier
\* entries share the key (f, counter).
FrontierOrder ==
    /\ [](\A a, b \in open_set :
              /\ a[2] <= counter
              /\ (a[1] = b[1] /\ a[2] = b[2]) => a = b)
    /\ [][(pc = "loop" /\ pc' = "popped") =>
              \E e \in open_set :
                  /\ open_set' = open_set \ {e}
                  /\ current' = e[3]
                  /\ \A o \in open_set :
                         /\ e[1] <= o[1]
                         /\ (o[1] = e[1] /\ o # e) => e[2] < o[2]]_vars
    /\ [][(pc = "for") =>
              \A e \in open_set' \ open_set :
                  /\ e[2] = counter'
                  /\ counter' > counter
                  /\ \A o \in open_set : o[2] < e[2]]_vars

\* a pop that left an entry of the same f in the frontier
FrontierOrderWitness ==
    /\ pc = "popped"
    /\ counter >= 4
    /\ \E o \in open_set :
           o[1] = g_values[current.board]
                      + heuristic_func(heuristic, current, goal_states)

\* C14: constructing a State from a grid that has no cell holding 0, more
\* than one cell holding 0, or that is not a permutation of 0..8 fails, so
\* every State object built from a raw grid holds a permutation of 0..8.
ConstructionValidates ==
    (pc = "ready" /\ log = <<>>) => IsPermutation(initial_state.board)

\* C15: manhattan_distance and misplaced_tiles called with an empty goal
\* set fail with an error instead of returning an estimate.
EmptyGoalsFail ==
    (last_op = "heuristic" /\ estimate.goals = <<>>) => estimate.raised


\* C16: the search from the default grid [[1,2,3],[4,0,5],[7,8,6]] returns,
\* for either heuristic, a path whose last board is a goal and whose length
\* minus one is the least number of moves found by breadth-first search.
DefaultScenario ==
    (pc = "done" /\ initial_state.board = DefaultGrid) =>
        /\ ~result.is_none
        /\ Len(result.path) >= 1
        /\ result.path[Len(result.path)].board \in GoalGrids
        /\ Len(result.path) - 1 = TrueCost(initial_state)

DefaultScenarioWitness ==
    /\ pc = "done"
    /\ initial_state.board = DefaultGrid
    /\ heuristic = "misplaced"
    /\ ~result.is_none
    /\ Len(result.path) = 3
    /\ result.path[1].board = DefaultGrid
    /\ result.path[3].board = goal_states[1]

\* C17: applying apply_special_rules twice to a valid board gives the
\* original board back, and on a board that the rule has already processed
\* a further application changes nothing exactly when neither tiles 1 and 3
\* nor tiles 2 and 4 are orthogonally adjacent in it.
RuleTwice ==
    IsPermutation(s.board) =>
        LET once  == apply_special_rules(s)
            twice == apply_special_rules(once)
        IN  /\ twice = s
            /\ last_op = "apply_special_rules" => once = prev
            /\ last_op \in {"apply_special_rules", "get_neighbors"} =>
                   ((once.board = s.board) <=>
                       /\ ~Orthogonal(CellOf(s.board, 1), CellOf(s.board, 3))
                       /\ ~Orthogonal(CellOf(s.board, 2), CellOf(s.board, 4)))

RuleTwiceWitness ==
    /\ last_op = "apply_special_rules"
    /\ IsPermutation(s.board)
    /\ s.board # prev.board
    /\ Orthogonal(CellOf(s.board, 1), CellOf(s.board, 3))
    /\ Orthogonal(CellOf(s.board, 2), CellOf(s.board, 4))
    /\ apply_special_rules(s) = prev
    /\ apply_special_rules(s).board # s.board

\* C18: a search started on a valid initial board ends, by popping a goal
\* board or by emptying the frontier; only a board that is not yet explored
\* is expanded, and a board is pushed on the frontier only when it has no
\* recorded g-cost or the new g-cost is strictly below the recorded one.
Terminates ==
    /\ (pc = "ready" /\ IsPermutation(initial_state.board)) ~> (pc = "done")
    /\ [][(pc = "popped" /\ pc' \in {"for", "loop"}
              /\ nodes_expanded' # nodes_expanded) =>
               /\ ~InSet(current, closed_set)
               /\ InSet(current, closed_set')]_vars
    /\ [][(pc = "for") =>
               \A e \in open_set' \ open_set :
                   /\ ~InSet(e[3], closed_set)
                   /\ \/ ~HasKey(g_values, e[3])
                      \/ g_values'[e[3].board] < g_values[e[3].board]]_vars

TerminatesWitness ==
    /\ pc = "done"
    /\ log = <<>>
    /\ IsPermutation(initial_state.board)
    /\ ~result.is_none
    /\ nodes_expanded >= 20
    /\ \E i, j \in DOMAIN search_tree :
           /\ i < j
           /\ search_tree[i][2].board = search_tree[j][2].board

\* C19: during the first search on an engine nodes_expanded equals the
\* number of boards in closed_set at every point, no two members of
\* closed_set hold the same board, and a popped non-goal board that is
\* already in closed_set is dropped: the loop goes on with closed_set,
\* counters, frontier and maps as they were.
LazyDeletion ==
    /\ [](log = <<>> =>
            /\ nodes_expanded = Cardinality(closed_set)
            /\ \A a, b \in closed_set : a.board = b.board => a = b)
    /\ [][(/\ pc = "popped"
           /\ ~is_goal(current, goal_states)
           /\ InSet(current, closed_set)) =>
              /\ pc' = "loop"
              /\ UNCHANGED <<closed_set, nodes_expanded, open_set, g_values,
                             parent, counter, search_tree>>]_vars

LazyDeletionWitness ==
    /\ log = <<>>
    /\ pc = "popped"
    /\ ~is_goal(current, goal_states)
    /\ InSet(current, closed_set)
    /\ nodes_expanded = Cardinality(closed_set)
    /\ nodes_expanded >= 10

ChainOf(b) == PathBack(parent, [board |-> b, blank_pos |-> CellOf(b, 0)])

\* the recorded parent of board b is explored and b costs one more than it
Linked(b) ==
    LET p == parent[b]
    IN  /\ p # NoState
        /\ InSet(p, closed_set)
        /\ HasKey(g_values, p)
        /\ g_values[b] = g_values[p.board] + 1

\* board b is the board of one of get_neighbors(p)
NeighborOf(b, p) ==
    LET nb == get_neighbors(p)
    IN  \E k \in DOMAIN nb : nb[k].board = b

\* C21: at every point of a search run, every recorded board other than the
\* initial one has its parent in closed_set and the parent's g plus one, and
\* its parent chain reaches the initial board in exactly g steps with no
\* board twice; it is a neighbor of its parent: this holds for all recorded
\* boards whenever a board has been popped or the search has returned, and
\* for the one entry that a pass of the neighbor loop writes; the g and
\* parent of a board in closed_set never change during the run.
Bookkeeping ==
    /\ [](pc \in {"loop", "popped", "for", "done"} =>
            /\ DOMAIN parent = DOMAIN g_values
            /\ parent[initial_state.board] = NoState
            /\ g_values[initial_state.board] = 0
            /\ \A b \in DOMAIN parent \ {initial_state.board} : Linked(b)
            /\ \A b \in DOMAIN parent :
                   LET chain == ChainOf(b)
                   IN  /\ Len(chain) = g_values[b] + 1
                       /\ chain[Len(chain)].board = initial_state.board
                       /\ \A m, n \in DOMAIN chain :
                              chain[m].board = chain[n].board => m = n
            /\ pc \in {"popped", "done"} =>
                   \A b \in DOMAIN parent \ {initial_state.board} :
                       NeighborOf(b, parent[b]))
    /\ [][(pc \in {"loop", "popped", "for"}) =>
              \A c \in closed_set :
                  /\ c \in closed_set'
                  /\ g_values'[c.board] = g_values[c.board]
                  /\ parent'[c.board] = parent[c.board]]_vars
    /\ [][(pc = "for") =>
              \A b \in DOMAIN parent' :
                  (\/ b \notin DOMAIN parent
                   \/ parent'[b] # parent[b]
                   \/ g_values'[b] # g_values[b]) =>
                      /\ b = Head(todo).board
                      /\ parent'[b] = current
                      /\ InSet(current, closed_set)
                      /\ NeighborOf(b, current)
                      /\ g_values'[b] = g_values[current.board] + 1]_vars

BookkeepingWitness ==
    /\ pc = "popped"
    /\ IsPermutation(initial_state.board)
    /\ Cardinality(closed_set) >= 10
    /\ current.board # initial_state.board
    /\ g_values[current.board] >= 5
    /\ Linked(current.board)
    /\ NeighborOf(current.board, parent[current.board])
    /\ Len(ChainOf(current.board)) = g_values[current.board] + 1
    /\ \E e \in open_set : e[3].board = current.board

\* C22: on every valid board both heuristics, taken with the four goals,
\* are non-negative; manhattan_distance is 0 exactly on the four goal
\* boards and misplaced_tiles is 0 exactly when is_goal holds.
ZeroSet ==
    IsPermutation(s.board) =>
        /\ manhattan_distance(s, goal_states) >= 0
        /\ misplaced_tiles(s, goal_states) >= 0
        /\ (manhattan_distance(s, goal_states) = 0) <=> (s.board \in GoalGrids)
        /\ (misplaced_tiles(s, goal_states) = 0) <=> is_goal(s, goal_states)

ZeroSetWitness ==
    /\ last_op = "get_neighbors"
    /\ steps >= 2
    /\ IsPermutation(s.board)
    /\ s.board = goal_states[3]
    /\ manhattan_distance(s, goal_states) = 0
    /\ misplaced_tiles(s, goal_states) = 0
    /\ ~is_goal(prev, goal_states)
    /\ manhattan_distance(prev, goal_states) > 0
    /\ misplaced_tiles(prev, goal_states) > 0

====
